---------------------------- MODULE Spec2Model ----------------------------
(***************************************************************************)
(* A model of the JSON tree widget of ratatui-json-tutorial:               *)
(*   src/src/json_widget.rs  height_of_value and the recursive renderer    *)
(*   src/src/main.rs         the application loop and its key handling     *)
(***************************************************************************)
EXTENDS Integers, Sequences, FiniteSets, TLC

(***************************************************************************)
(* Bounds of the model.                                                    *)
(***************************************************************************)
\* Largest number of nodes (scalars and containers) of a modelled document.
MaxNodes == 3
\* Longest string over {a, line-break} given to height_of_value on its own.
MaxStrLen == 3
\* Width and height of the modelled buffers.
BufWidth == 14
BufHeight == 6

\* u16 of the Rust source: 2^16 values.
U16Range == 65536
U16Max == U16Range - 1

Min(a, b) == IF a < b THEN a ELSE b
Max(a, b) == IF a > b THEN a ELSE b

(***************************************************************************)
(* serde_json::Value.  One record shape for every kind, so that values of  *)
(* different kinds can be compared: b is the payload of Bool, num of       *)
(* Number, s (a sequence of characters) of String, items the elements of   *)
(* an Array or the entry values of an Object, keys the entry keys of an    *)
(* Object in the map's iteration order.                                    *)
(***************************************************************************)
NL == "\n"

Value(kind, b, num, s, items, keys) ==
    [kind |-> kind, b |-> b, num |-> num, s |-> s, items |-> items, keys |-> keys]

VNull == Value("Null", FALSE, 0, <<>>, <<>>, <<>>)
VBool(b) == Value("Bool", b, 0, <<>>, <<>>, <<>>)
VNumber(n) == Value("Number", FALSE, n, <<>>, <<>>, <<>>)
VString(s) == Value("String", FALSE, 0, s, <<>>, <<>>)
VArray(items) == Value("Array", FALSE, 0, <<>>, items, <<>>)
VObject(keys, items) == Value("Object", FALSE, 0, <<>>, items, keys)

(***************************************************************************)
(* str::lines(): the pieces between line-breaks; the line-break ending the *)
(* last piece is optional, so "" has no line and "a\n" has one.            *)
(***************************************************************************)
RECURSIVE FirstBreak(_, _)
FirstBreak(s, i) ==
    IF i > Len(s) THEN 0
    ELSE IF s[i] = NL THEN i
    ELSE FirstBreak(s, i + 1)

RECURSIVE Lines(_)
Lines(s) ==
    IF s = <<>> THEN <<>>
    ELSE LET i == FirstBreak(s, 1) IN
         IF i = 0 THEN <<s>>
         ELSE <<SubSeq(s, 1, i - 1)>> \o Lines(SubSeq(s, i + 1, Len(s)))

\* `as u16` and the wrapping of u16 arithmetic without overflow checks.
AsU16(n) == n % U16Range

(***************************************************************************)
(* height_of_value (json_widget.rs:141-162).                               *)
(***************************************************************************)
RECURSIVE SumHeights(_, _)
RECURSIVE height_of_value(_)

\* Iterator::sum::<u16>() over the heights of the values; the sum keeps the
\* width of u16.
SumHeights(values, i) ==
    IF i > Len(values) THEN 0
    ELSE AsU16(height_of_value(values[i]) + SumHeights(values, i + 1))

\* height_of_value with the closing brace's row of an object forgotten.
height_of_value_brace(value) ==
    CASE value.kind = "String" -> AsU16(Len(Lines(value.s)))
      [] value.kind = "Array" ->
            IF value.items = <<>> THEN 1
            ELSE AsU16(SumHeights(value.items, 1) + 2)
      [] value.kind = "Object" ->
            IF value.items = <<>> THEN 1
            ELSE AsU16(SumHeights(value.items, 1) + 1)
      [] OTHER -> 1

height_of_value(value) ==
    CASE value.kind = "Null" -> 1
      [] value.kind = "Bool" -> 1
      [] value.kind = "Number" -> 1
      [] value.kind = "String" -> AsU16(Len(Lines(value.s)))
      [] value.kind = "Array" ->
            IF value.items = <<>> THEN 1
            ELSE AsU16(SumHeights(value.items, 1) + 2)
      [] value.kind = "Object" ->
            IF value.items = <<>> THEN 1
            ELSE AsU16(SumHeights(value.items, 1) + 2)

(***************************************************************************)
(* The documents of the model: every value of at most MaxNodes nodes over  *)
(* the scalars and keys below.                                             *)
(***************************************************************************)
Scalars ==
    { VNull, VBool(TRUE), VNumber(42),
      VString(<<>>), VString(<<"a">>), VString(<<"a", NL, "b">>) }

Keys == { <<"k">>, <<"k", "e", "y", "1">> }

\* serde_json::Map: the keys of one map are distinct.
KeySeqs(n) ==
    { ks \in [1..n -> Keys] : \A i, j \in 1..n : i # j => ks[i] # ks[j] }

RECURSIVE ValuesOfSize(_, _)
RECURSIVE SeqsOfSize(_, _)

\* The sequences of values of m nodes in all, over the scalars.
SeqsOfSize(scalars, m) ==
    IF m = 0 THEN { <<>> }
    ELSE UNION { { <<v>> \o rest : v \in ValuesOfSize(scalars, k),
                                   rest \in SeqsOfSize(scalars, m - k) }
                 : k \in 1..m }

\* The values of n nodes over the scalars.
ValuesOfSize(scalars, n) ==
    IF n = 1 THEN scalars \cup { VArray(<<>>), VObject(<<>>, <<>>) }
    ELSE { VArray(f) : f \in SeqsOfSize(scalars, n - 1) }
         \cup UNION { { VObject(ks, f) : ks \in KeySeqs(Len(f)) }
                      : f \in SeqsOfSize(scalars, n - 1) }

Values == UNION { ValuesOfSize(Scalars, n) : n \in 1..MaxNodes }

\* The documents the application loads: every shape, with null leaves.
AppValues == UNION { ValuesOfSize({VNull}, n) : n \in 1..MaxNodes }

RECURSIVE StringsOfLen(_)
StringsOfLen(n) ==
    IF n = 0 THEN { <<>> }
    ELSE { <<c>> \o s : c \in {"a", NL}, s \in StringsOfLen(n - 1) }

Strings == UNION { StringsOfLen(n) : n \in 0..MaxStrLen }


(***************************************************************************)
(* ratatui::layout::Rect, as the renderer uses it.                         *)
(***************************************************************************)
Rect(x, y, width, height) == [x |-> x, y |-> y, width |-> width, height |-> height]

\* Rect::new keeps the rectangle inside the u16 coordinate space.
RectNew(x, y, width, height) ==
    Rect(x, y, Min(width, U16Max - x), Min(height, U16Max - y))

Left(r) == r.x
Top(r) == r.y
\* Rect::right and Rect::bottom are saturating additions.
Right(r) == Min(r.x + r.width, U16Max)
Bottom(r) == Min(r.y + r.height, U16Max)
IsEmpty(r) == r.width = 0 \/ r.height = 0

Intersection(r, other) ==
    LET x1 == Max(r.x, other.x)
        y1 == Max(r.y, other.y)
        x2 == Min(Right(r), Right(other))
        y2 == Min(Bottom(r), Bottom(other))
    IN  Rect(x1, y1, Max(x2 - x1, 0), Max(y2 - y1, 0))

(***************************************************************************)
(* Styles (json_widget.rs:19-24): the foreground and background colours   *)
(* and the modifiers added.  Patching keeps an old colour when the new     *)
(* style names none and adds the new modifiers.                            *)
(***************************************************************************)
Style(fg, bg, mods) == [fg |-> fg, bg |-> bg, mods |-> mods]
StyleDefault == Style("None", "None", {})
PUNCTUATION_STYLE == Style("White", "None", {"BOLD"})
KEY_STYLE == Style("Blue", "None", {"BOLD"})
STRING_STYLE == Style("Green", "None", {})
NUMBER_STYLE == Style("Yellow", "None", {})
BOOLEAN_STYLE == Style("Cyan", "None", {})
NULL_STYLE == Style("None", "None", {"DIM"})

Patch(old, new) ==
    Style(IF new.fg = "None" THEN old.fg ELSE new.fg,
          IF new.bg = "None" THEN old.bg ELSE new.bg,
          old.mods \cup new.mods)

(***************************************************************************)
(* ratatui::buffer::Buffer: an area and the cells of its rows, top to       *)
(* bottom and left to right.                                               *)
(***************************************************************************)
Cell(symbol, style) == [symbol |-> symbol, style |-> style]

\* Buffer::empty
BufferEmpty(r) ==
    [area |-> r,
     content |-> [j \in 1..r.height |-> [i \in 1..r.width |-> Cell(" ", StyleDefault)]]]

\* The cell of position (x, y) of the buffer, as buf[(x, y)].
CellAt(b, x, y) == b.content[y - b.area.y + 1][x - b.area.x + 1]

VARIABLES
    json,             \* JsonWidget.json
    height,           \* the result of height_of_value(json)
    area,             \* the region handed to the renderer
    buf,              \* the buffer rendered into
    fault,            \* a u16 computation of the renderer overflowed
    log,              \* the render calls made, in order
    cursor,           \* the cursor index of the widget
    quit,             \* JsonEditorApp.quit
    key,              \* the last key handled
    pc                \* the position of the program

vars == <<json, height, area, buf, fault, log, cursor, quit, key, pc>>


(***************************************************************************)
(* The renderer threads one record through its calls:                      *)
(*   buf     the buffer written so far                                     *)
(*   fault   a u16 computation has overflowed                              *)
(*   log     the render calls made so far                                  *)
(*   checks  the build checks overflow: an overflow panics (a debug build) *)
(*           and nothing runs after it; without checks (a release build)   *)
(*           the result wraps and the renderer goes on                     *)
(***************************************************************************)
Rs(b, f, l, checks) == [buf |-> b, fault |-> f, log |-> l, checks |-> checks]

\* The renderer has panicked: an overflow in a build that checks it.
Panicked(st) == st.fault /\ st.checks

\* One entry of the log: the call, its text or value, the area it was given
\* and the area of the container that made it.
LogEntry(call, text, value, a, parent) ==
    [call |-> call, text |-> text, value |-> value, area |-> a, parent |-> parent]

Overflow(st) == [st EXCEPT !.fault = TRUE]

\* Span::styled_graphemes drops the line-breaks of the content.
RECURSIVE Graphemes(_)
Graphemes(content) ==
    IF content = <<>> THEN <<>>
    ELSE IF Head(content) = NL THEN Graphemes(Tail(content))
    ELSE <<Head(content)>> \o Graphemes(Tail(content))

\* What Span::render and Line::render do to the cells: the graphemes go on
\* the first row of the clipped area, one per cell from its left edge, as
\* many as fit in its width; each cell's style is patched.
PutText(b, cells, a) ==
    LET clipped == Intersection(a, b.area)
        n == Min(Len(cells), clipped.width)
        row == clipped.y - b.area.y + 1
        col == clipped.x - b.area.x
    IN  IF IsEmpty(clipped) THEN b
        ELSE [b EXCEPT !.content[row] =
                [i \in 1..b.area.width |->
                    IF i > col /\ i <= col + n
                    THEN Cell(cells[i - col].symbol, Patch(@[i].style, cells[i - col].style))
                    ELSE @[i]]]

Styled(content, style) ==
    LET g == Graphemes(content) IN [i \in 1..Len(g) |-> Cell(g[i], style)]

\* Buffer::set_style(area, style): the style of every cell of the area is
\* patched.
SetStyle(b, a, style) ==
    LET clipped == Intersection(a, b.area) IN
    [b EXCEPT !.content =
        [j \in 1..b.area.height |->
            [i \in 1..b.area.width |->
                IF /\ i - 1 + b.area.x >= clipped.x /\ i - 1 + b.area.x < Right(clipped)
                   /\ j - 1 + b.area.y >= clipped.y /\ j - 1 + b.area.y < Bottom(clipped)
                THEN Cell(@[j][i].symbol, Patch(@[j][i].style, style))
                ELSE @[j][i]]]]

\* Line::render: nothing for an empty area; else the line's style on the
\* first row of the area, then its spans from the left edge.
LineRender(cells, style, a, b) ==
    LET clipped == Intersection(a, b.area) IN
    IF IsEmpty(clipped) \/ Len(cells) = 0 THEN b
    ELSE PutText(SetStyle(b, Rect(clipped.x, clipped.y, clipped.width, 1), style),
                 cells, clipped)

\* Span::styled(content, style).render(area, buf)
SpanRender(content, style, a, st) ==
    Rs(PutText(st.buf, Styled(content, style), a), st.fault,
       Append(st.log, LogEntry("Span", content, VNull, a, a)), st.checks)

QUOTE == "\""

\* format!("\"{}\"", s)
Quoted(s) == <<QUOTE>> \o s \o <<QUOTE>>

\* format!("{}", num) of an integer Number: its decimal digits, '-' first
\* when it is negative.
DigitChars == <<"0", "1", "2", "3", "4", "5", "6", "7", "8", "9">>

RECURSIVE Decimal(_)
Decimal(n) ==
    IF n < 10 THEN <<DigitChars[n + 1]>>
    ELSE Decimal(n \div 10) \o <<DigitChars[(n % 10) + 1]>>

FormatNumber(num) == IF num < 0 THEN <<"-">> \o Decimal(-num) ELSE Decimal(num)

\* json_widget.rs:51-53
render_null(a, st) == SpanRender(<<"n", "u", "l", "l">>, NULL_STYLE, a, st)

\* json_widget.rs:55-58
render_bool(b, a, st) ==
    LET content == IF b THEN <<"t", "r", "u", "e">> ELSE <<"f", "a", "l", "s", "e">>
    IN  SpanRender(content, BOOLEAN_STYLE, a, st)

\* json_widget.rs:60-63
render_number(num, a, st) == SpanRender(FormatNumber(num), NUMBER_STYLE, a, st)

\* json_widget.rs:65-69
render_string(s, a, st) == SpanRender(Quoted(s), STRING_STYLE, a, st)

\* A u16 subtraction a - b overflows below zero, an addition above u16::MAX.
SubOverflows(a, b) == a < b
AddOverflows(a, b) == a + b > U16Max

\* The sub-region of array element: Rect::new(area.left() + 2, current_line,
\* area.width - 2, value_height) (json_widget.rs:98).
ArrayValueArea(a, current_line, value_height) ==
    RectNew(AsU16(Left(a) + 2), current_line, AsU16(a.width - 2), value_height)

\* The key's area (json_widget.rs:122).
KeyArea(a, current_line) ==
    RectNew(AsU16(Left(a) + 2), current_line, AsU16(a.width - 2), 1)

\* The sub-region of an entry's value with the indentation of the key left
\* out: it starts key_width columns in.
ObjectValueAreaNoIndent(a, current_line, key_width, value_height) ==
    RectNew(AsU16(Left(a) + key_width), current_line,
            AsU16(a.width - key_width), value_height)

\* The sub-region of an entry's value (json_widget.rs:128-133).
ObjectValueArea(a, current_line, key_width, value_height) ==
    RectNew(AsU16(AsU16(Left(a) + key_width) + 2), current_line,
            AsU16(AsU16(a.width - key_width) - 2), value_height)

\* Line::from(vec![key_span, ": "]): the cells of the quoted key and of the
\* separator, and Line::width() as u16.
KeyLine(k) ==
    Styled(Quoted(k), KEY_STYLE) \o Styled(<<":", " ">>, PUNCTUATION_STYLE)

KeyWidth(k) == AsU16(Len(KeyLine(k)))

\* The state after a u16 computation that overflows when `overflows`.
Checked(overflows, st) == IF overflows THEN Overflow(st) ELSE st

\* closing_bracket.render(area, buf), unless the area's computation panicked.
RenderClosing(bracket, a, st) ==
    IF Panicked(st) THEN st ELSE SpanRender(bracket, PUNCTUATION_STYLE, a, st)

RECURSIVE render_value(_, _, _)
RECURSIVE render_array_loop(_, _, _, _, _)
RECURSIVE render_object_loop(_, _, _, _, _)

\* render_array's loop advancing one row per element, whatever its height.
render_array_advance_one_row(arr, i, a, current_line, value_height, st) ==
    IF Panicked(st) THEN st
    ELSE render_array_loop(arr, i + 1, a, AsU16(current_line + 1), st)

\* current_line += value_height, then the rest of the loop of render_array
\* (json_widget.rs:100).
render_array_advance(arr, i, a, current_line, value_height, st) ==
    IF Panicked(st) THEN st
    ELSE render_array_loop(arr, i + 1, a, AsU16(current_line + value_height), st)

\* The loop of render_array and the closing bracket (json_widget.rs:96-103).
render_array_loop(arr, i, a, current_line, st) ==
    IF Panicked(st) THEN st
    ELSE IF i > Len(arr)
    THEN RenderClosing(<<"]">>, RectNew(Left(a), current_line, a.width, 1), st)
    ELSE LET value == arr[i]
             value_height == height_of_value(value)
             value_area == ArrayValueArea(a, current_line, value_height)
             sized == Checked(AddOverflows(Left(a), 2) \/ SubOverflows(a.width, 2), st)
             logged == [sized EXCEPT !.log =
                           Append(@, LogEntry("render_value", <<>>, value, value_area, a))]
         IN  IF Panicked(sized) THEN sized
             ELSE render_array_advance(arr, i, a, current_line, value_height,
                      Checked(AddOverflows(current_line, value_height),
                              render_value(value, value_area, logged)))

\* json_widget.rs:81-104
render_array(arr, area0, st) ==
    LET a == Intersection(area0, st.buf.area)
        opened == SpanRender(<<"[">>, PUNCTUATION_STYLE, a, st)
    IN  IF IsEmpty(a) THEN st
        ELSE IF arr = <<>>
        THEN RenderClosing(<<"]">>, RectNew(AsU16(Left(a) + 1), Top(a), a.width - 1, 1),
                           Checked(AddOverflows(Left(a), 1), opened))
        ELSE render_array_loop(arr, 1, a, AsU16(Top(a) + 1),
                               Checked(AddOverflows(Top(a), 1), opened))

\* current_line += value_height, then the rest of the loop of render_object
\* (json_widget.rs:135).
render_object_advance(obj, i, a, current_line, value_height, st) ==
    IF Panicked(st) THEN st
    ELSE render_object_loop(obj, i + 1, a, AsU16(current_line + value_height), st)

\* An entry's value: its sub-region and its rendering (json_widget.rs:127-134).
render_object_value(obj, i, a, current_line, st) ==
    LET value == obj.items[i]
        key_width == KeyWidth(obj.keys[i])
        value_height == height_of_value(value)
        value_area == ObjectValueArea(a, current_line, key_width, value_height)
        sized == Checked( \/ AddOverflows(Left(a), key_width)
                          \/ AddOverflows(AsU16(Left(a) + key_width), 2)
                          \/ SubOverflows(a.width, key_width)
                          \/ SubOverflows(AsU16(a.width - key_width), 2), st)
        logged == [sized EXCEPT !.log =
                      Append(@, LogEntry("render_value", <<>>, value, value_area, a))]
    IN  IF Panicked(sized) THEN sized
        ELSE render_object_advance(obj, i, a, current_line, value_height,
                 Checked(AddOverflows(current_line, value_height),
                         render_value(value, value_area, logged)))

\* The loop of render_object and the closing brace (json_widget.rs:121-138).
render_object_loop(obj, i, a, current_line, st) ==
    IF Panicked(st) THEN st
    ELSE IF i > Len(obj.items)
    THEN RenderClosing(<<"}">>, RectNew(Left(a), current_line, a.width, 1), st)
    ELSE LET key_area == KeyArea(a, current_line)
             sized == Checked(AddOverflows(Left(a), 2) \/ SubOverflows(a.width, 2), st)
             keyed == Rs(LineRender(KeyLine(obj.keys[i]), StyleDefault, key_area, sized.buf),
                         sized.fault,
                         Append(sized.log,
                                LogEntry("Line", Quoted(obj.keys[i]) \o <<":", " ">>,
                                         VNull, key_area, a)),
                         sized.checks)
         IN  IF Panicked(sized) THEN sized
             ELSE render_object_value(obj, i, a, current_line, keyed)

\* json_widget.rs:106-139
render_object(obj, area0, st) ==
    LET a == Intersection(area0, st.buf.area)
        opened == SpanRender(<<"{">>, PUNCTUATION_STYLE, a, st)
    IN  IF IsEmpty(a) THEN st
        ELSE IF obj.items = <<>>
        THEN RenderClosing(<<"}">>, RectNew(AsU16(Left(a) + 1), Top(a), a.width - 1, 1),
                           Checked(AddOverflows(Left(a), 1), opened))
        ELSE render_object_loop(obj, 1, a, AsU16(Top(a) + 1),
                                Checked(AddOverflows(Top(a), 1), opened))

\* json_widget.rs:36-49
render_value(value, area0, st) ==
    LET a == Intersection(area0, st.buf.area) IN
    IF IsEmpty(a) THEN st
    ELSE CASE value.kind = "Null" -> render_null(a, st)
           [] value.kind = "Bool" -> render_bool(value.b, a, st)
           [] value.kind = "Number" -> render_number(value.num, a, st)
           [] value.kind = "String" -> render_string(value.s, a, st)
           [] value.kind = "Array" -> render_array(value.items, a, st)
           [] value.kind = "Object" -> render_object(value, a, st)

(***************************************************************************)
(* The renderer on its own: any document, any region, a fresh buffer.      *)
(***************************************************************************)
BufArea == Rect(0, 0, BufWidth, BufHeight)

\* The regions rendered into: narrow ones at the buffer's origin, wide ones
\* of one row, of two and of all the rows below their origin, and one that
\* is larger than the buffer.
Regions ==
    { Rect(0, 0, w, h) : w \in {0, 1, 2, 3}, h \in {1, BufHeight} }
    \cup { Rect(o, o, BufWidth - o, h) : o \in {0, 1}, h \in {1, 2} }
    \cup { Rect(o, o, BufWidth - o, BufHeight - o) : o \in {0, 1} }
    \cup { Rect(0, 0, BufWidth + 1, BufHeight + 1) }

Init ==
    /\ json \in Values
    /\ area \in Regions
    /\ buf = BufferEmpty(BufArea)
    /\ fault = FALSE
    /\ log = <<>>
    /\ height = 0
    /\ cursor = 0
    /\ quit = FALSE
    /\ key = "none"
    /\ pc = "start"

\* Widget::render for &JsonWidget (json_widget.rs:26-34).
Render ==
    /\ pc = "start"
    /\ \E checks \in BOOLEAN :
       \E st \in { render_value(json, area, Rs(buf, FALSE, <<>>, checks)) } :
         /\ buf' = st.buf
         /\ fault' = st.fault
         /\ log' = st.log
    /\ pc' = "rendered"
    /\ UNCHANGED <<json, area, height, cursor, quit, key>>

Next == Render

Spec == Init /\ [][Next]_vars

(***************************************************************************)
(* height_of_value on its own: any document and any string.                *)
(***************************************************************************)
InitHeight ==
    /\ json \in Values \cup { VString(s) : s \in Strings }
    /\ area = Rect(0, 0, 0, 0)
    /\ buf = BufferEmpty(Rect(0, 0, 0, 0))
    /\ fault = FALSE
    /\ log = <<>>
    /\ height = 0
    /\ cursor = 0
    /\ quit = FALSE
    /\ key = "none"
    /\ pc = "start"

ComputeHeight ==
    /\ pc = "start"
    /\ height' = height_of_value(json)
    /\ pc' = "done"
    /\ UNCHANGED <<json, area, buf, fault, log, cursor, quit, key>>

NextHeight == ComputeHeight

SpecHeight == InitHeight /\ [][NextHeight]_vars

(***************************************************************************)
(* The widget's cursor.  JsonEditorApp::handle_key calls next_edit and     *)
(* prev_edit of the widget; json_widget.rs does not hold them, so they are *)
(* taken from the specification: the cursor moves over the edit positions  *)
(* of the document (one per leaf value and one per object key) and         *)
(* saturates at both ends.                                                 *)
(***************************************************************************)
RECURSIVE edit_count(_)
RECURSIVE SumEditCounts(_, _, _)

SumEditCounts(values, i, per_entry) ==
    IF i > Len(values) THEN 0
    ELSE per_entry + edit_count(values[i]) + SumEditCounts(values, i + 1, per_entry)

edit_count(value) ==
    CASE value.kind = "Array" -> SumEditCounts(value.items, 1, 0)
      [] value.kind = "Object" -> SumEditCounts(value.items, 1, 1)
      [] OTHER -> 1

next_edit(c, n) == IF n = 0 THEN c ELSE Min(c + 1, n - 1)

prev_edit(c, n) == IF n = 0 THEN c ELSE Max(c - 1, 0)

(***************************************************************************)
(* The application (main.rs).                                              *)
(***************************************************************************)
\* The key codes given to handle_key: every code it names, and one other.
KeyCodes == {"q", "Esc", "j", "l", "Down", "Right", "k", "h", "Up", "Left", "x"}

\* handle_key with the two directions bound to each other's keys.
handle_key_swapped(code, w) ==
    CASE code \in {"q", "Esc"} -> [w EXCEPT !.quit = TRUE]
      [] code \in {"j", "l", "Down", "Right"} ->
            [w EXCEPT !.cursor = prev_edit(w.cursor, edit_count(w.json))]
      [] code \in {"k", "h", "Up", "Left"} ->
            [w EXCEPT !.cursor = next_edit(w.cursor, edit_count(w.json))]
      [] OTHER -> w

\* JsonEditorApp::handle_key (main.rs:80-88): the quit flag and the cursor
\* after the key.
handle_key(code, w) ==
    CASE code \in {"q", "Esc"} -> [w EXCEPT !.quit = TRUE]
      [] code \in {"j", "l", "Down", "Right"} ->
            [w EXCEPT !.cursor = next_edit(w.cursor, edit_count(w.json))]
      [] code \in {"k", "h", "Up", "Left"} ->
            [w EXCEPT !.cursor = prev_edit(w.cursor, edit_count(w.json))]
      [] OTHER -> w

\* The terminal's frame.
TermArea == BufArea

TitleText ==
    << "J", "S", "O", "N", " ", "e", "d", "i", "t", "o", "r", " ",
       "t", "u", "t", "o", "r", "i", "a", "l", " ",
       "e", "x", "a", "m", "p", "l", "e", ".", " ",
       "[", "k", " ", "p", "r", "e", "v", "]", " ",
       "[", "j", " ", "n", "e", "x", "t", "]", " ",
       "[", "q", " ", "q", "u", "i", "t", "]" >>

\* Layout::vertical([Length(1), Fill(1)]).areas(frame.area()) (main.rs:62-63)
TitleArea(frame) == Rect(frame.x, frame.y, frame.width, Min(1, frame.height))
MainArea(frame) ==
    Rect(frame.x, frame.y + Min(1, frame.height), frame.width,
         frame.height - Min(1, frame.height))

\* JsonEditorApp::new (main.rs:41-48); JsonWidget::default() holds Null.
InitApp ==
    /\ json = VNull
    /\ area = MainArea(TermArea)
    /\ buf = BufferEmpty(TermArea)
    /\ fault = FALSE
    /\ log = <<>>
    /\ height = 0
    /\ cursor = 0
    /\ quit = FALSE
    /\ key = "none"
    /\ pc = "load"

\* run, main.rs:51-52: the file is opened and parsed, or run returns the error.
Load ==
    /\ pc = "load"
    /\ \/ /\ json' \in AppValues
          /\ pc' = "draw"
       \/ /\ json' = json
          /\ pc' = "exit"
    /\ UNCHANGED <<area, buf, fault, log, height, cursor, quit, key>>

\* JsonEditorApp::draw (main.rs:60-71): the title and the widget into a
\* fresh frame.
Draw ==
    /\ pc = "draw"
    /\ \E checks \in BOOLEAN :
       \E st \in { render_value(json, MainArea(TermArea),
                       Rs(LineRender(Styled(TitleText, StyleDefault),
                                     Style("White", "Blue", {}),
                                     TitleArea(TermArea), BufferEmpty(TermArea)),
                          FALSE, <<>>, checks)) } :
         /\ buf' = st.buf
         /\ fault' = st.fault
         /\ log' = st.log
         /\ pc' = IF Panicked(st) THEN "panicked" ELSE "events"
    /\ UNCHANGED <<json, area, height, cursor, quit, key>>

\* handle_events with a key event (main.rs:73-78), then the loop's test.
HandleKey ==
    /\ pc = "events"
    /\ \E code \in KeyCodes :
       \E w \in { handle_key(code, [quit |-> quit, cursor |-> cursor, json |-> json]) } :
         /\ key' = code
         /\ quit' = w.quit
         /\ cursor' = w.cursor
         /\ pc' = IF w.quit THEN "exit" ELSE "draw"
    /\ UNCHANGED <<json, area, buf, fault, log, height>>

\* handle_events with an event that is no key.
OtherEvent ==
    /\ pc = "events"
    /\ key' = "none"
    /\ pc' = "draw"
    /\ UNCHANGED <<json, area, buf, fault, log, height, cursor, quit>>

NextApp == Load \/ Draw \/ HandleKey \/ OtherEvent

SpecApp == InitApp /\ [][NextApp]_vars

(***************************************************************************)
(* What the claims speak of.                                               *)
(***************************************************************************)
\* The number of line-breaks of a string.
RECURSIVE CountBreaks(_)
CountBreaks(s) ==
    IF s = <<>> THEN 0
    ELSE (IF Head(s) = NL THEN 1 ELSE 0) + CountBreaks(Tail(s))

\* The sum of the heights of the first n values, as a number.
RECURSIVE HeightsTo(_, _)
HeightsTo(values, n) ==
    IF n = 0 THEN 0 ELSE HeightsTo(values, n - 1) + height_of_value(values[n])

\* A value and every value nested in it.
RECURSIVE Subvalues(_)
Subvalues(value) ==
    {value} \cup UNION { Subvalues(value.items[i]) : i \in 1..Len(value.items) }

IsContainer(value) == value.kind \in {"Array", "Object"}

\* The region given to the renderer lies in the buffer.
RegionInBuffer == Intersection(area, buf.area) = area

(***************************************************************************)
(* C2: for all Values V (null, bool, number, every string including the    *)
(* empty string, every array and object), height_of_value(V) >= 1.         *)
(* The code gives the empty string the height 0.                           *)
(***************************************************************************)
C2_HeightAtLeastOne == pc = "done" => height >= 1

(***************************************************************************)
(* C3: the height of an array or object is 1 when it is empty and else the *)
(* sum of the heights of its elements (of its entry values) plus 2, at     *)
(* every depth of nesting.                                                 *)
(***************************************************************************)
ContainerHeightLaw(c) ==
    height_of_value(c) =
        IF c.items = <<>> THEN 1 ELSE HeightsTo(c.items, Len(c.items)) + 2

\* C3: every container of the measured document obeys the law, and the
\* height returned for the document does.
C3_ContainerHeight ==
    pc = "done" =>
        /\ IsContainer(json) =>
              height = IF json.items = <<>> THEN 1
                       ELSE HeightsTo(json.items, Len(json.items)) + 2
        /\ \A c \in Subvalues(json) : IsContainer(c) => ContainerHeightLaw(c)

\* An object holding a non-empty array has been measured: 1 + 2 + 2 rows.
C3_Witness ==
    /\ pc = "done"
    /\ json.kind = "Object"
    /\ Len(json.items) = 1
    /\ json.items[1].kind = "Array"
    /\ json.items[1].items = <<VNull>>
    /\ height = 5

(***************************************************************************)
(* C4: for every String value s, height_of_value(s) is the number of       *)
(* line-breaks in s plus 1.  The code counts the lines of str::lines():    *)
(* none for the empty string, and no line after a final line-break.        *)
(***************************************************************************)
C4_StringHeight ==
    (pc = "done" /\ json.kind = "String") => height = CountBreaks(json.s) + 1

(***************************************************************************)
(* C1: laying out any Value into any region of any buffer never faults:    *)
(* the sub-region computations (area.width - 2, area.width - key_width -   *)
(* 2, current_line += value_height) neither underflow nor overflow.  The   *)
(* code subtracts from a width that may be smaller.                        *)
(***************************************************************************)
C1_NoFault == pc = "rendered" => ~fault

(***************************************************************************)
(* C7: rendering a scalar into a one-row region of width W writes exactly  *)
(* the first min(W, length) characters of the scalar's literal text from   *)
(* the region's top-left cell and leaves the rest of the row as fill; for  *)
(* a String the text is the string's own characters, for null, true, false *)
(* and numbers it is null, true, false and the number's textual form.  The *)
(* code writes a String between double quotes.                             *)
(***************************************************************************)
LiteralText(value) ==
    CASE value.kind = "Null" -> <<"n", "u", "l", "l">>
      [] value.kind = "Bool" ->
            IF value.b THEN <<"t", "r", "u", "e">> ELSE <<"f", "a", "l", "s", "e">>
      [] value.kind = "Number" -> FormatNumber(value.num)
      [] value.kind = "String" -> value.s

\* C7: the row of a one-row region reads the scalar's literal text, clipped
\* to the width, then fill.
C7_ScalarText ==
    (/\ pc = "rendered"
     /\ ~IsContainer(json)
     /\ RegionInBuffer
     /\ area.height = 1)
    => \A i \in 0..(area.width - 1) :
          CellAt(buf, area.x + i, area.y).symbol =
              IF i < Len(LiteralText(json)) THEN LiteralText(json)[i + 1] ELSE " "

(***************************************************************************)
(* C10: render_value(V, R, buf) leaves every buffer cell outside the       *)
(* region R unchanged, also when R has fewer rows than height_of_value(V)  *)
(* and the buffer extends below R.  The code clips the sub-regions of the  *)
(* children and the closing bracket to the buffer only.                    *)
(***************************************************************************)
InRect(x, y, r) == x >= r.x /\ x < Right(r) /\ y >= r.y /\ y < Bottom(r)

\* C10: after rendering, every cell outside the region is as Buffer::empty
\* left it.
C10_OutsideUnchanged ==
    pc = "rendered" =>
        \A x \in buf.area.x .. (Right(buf.area) - 1),
           y \in buf.area.y .. (Bottom(buf.area) - 1) :
            ~InRect(x, y, area) => CellAt(buf, x, y) = Cell(" ", StyleDefault)

(***************************************************************************)
(* Layout: what the log and the buffer say of one container.               *)
(***************************************************************************)
\* The width a value needs for nothing of it to be clipped.
RECURSIVE WidthNeeded(_)
RECURSIVE MaxWidthNeeded(_, _)

MaxWidthNeeded(value, i) ==
    IF i > Len(value.items) THEN 0
    ELSE Max((IF value.kind = "Object" THEN Len(value.keys[i]) + 4 ELSE 0)
                 + WidthNeeded(value.items[i]),
             MaxWidthNeeded(value, i + 1))

WidthNeeded(value) ==
    CASE value.kind = "String" -> Len(value.s) + 2
      [] IsContainer(value) -> 2 + MaxWidthNeeded(value, 1)
      [] OTHER -> Len(LiteralText(value))

\* The region is large enough for the value: it lies in the buffer and has
\* the rows and the columns the value needs.
LargeEnough(value, r) ==
    /\ Intersection(r, buf.area) = r
    /\ r.height >= height_of_value(value)
    /\ r.width >= WidthNeeded(value)

\* The render_value calls and the key lines a container of area a made.
ChildCalls(a) ==
    LET Made(e) == e.call = "render_value" /\ e.parent = a IN SelectSeq(log, Made)

KeyLines(a) ==
    LET Made(e) == e.call = "Line" /\ e.parent = a IN SelectSeq(log, Made)

\* The text was given to Span::render with this area.
SpanWritten(text, a) ==
    \E n \in 1..Len(log) : log[n] = LogEntry("Span", text, VNull, a, a)

Symbol(x, y) == CellAt(buf, x, y).symbol

\* The containers laid out: the document and every container given to
\* render_value, each with its area.
Containers(kind) ==
    (IF json.kind = kind /\ json.items # <<>> THEN { <<json, area>> } ELSE {})
    \cup { <<log[n].value, log[n].area>> :
             n \in { m \in 1..Len(log) : /\ log[m].call = "render_value"
                                         /\ log[m].value.kind = kind
                                         /\ log[m].value.items # <<>> } }

(***************************************************************************)
(* C5: rendering a non-empty array into a region with top-left (x, y) that *)
(* is large enough writes `[` at (x, y), lays out element i at column      *)
(* x + 2 with its top row y + 1 + the sum of the heights of the elements   *)
(* before it (nested arrays indent a further 2 columns per level), and     *)
(* writes `]` at column x on the row y + 1 + the sum of all the heights.   *)
(***************************************************************************)
ArrayLaidOut(items, a) ==
    LET calls == ChildCalls(a)
        n == Len(items)
        top(i) == a.y + 1 + HeightsTo(items, i - 1)
    IN  /\ SpanWritten(<<"[">>, a)
        /\ Symbol(a.x, a.y) = "["
        /\ Len(calls) = n
        /\ \A i \in 1..n :
              /\ calls[i].value = items[i]
              /\ calls[i].area =
                    Rect(a.x + 2, top(i), a.width - 2, height_of_value(items[i]))
              /\ height_of_value(items[i]) >= 1 =>
                    /\ Symbol(a.x, top(i)) = " "
                    /\ Symbol(a.x + 1, top(i)) = " "
                    /\ Symbol(a.x + 2, top(i)) # " "
        /\ SpanWritten(<<"]">>, Rect(a.x, top(n + 1), a.width, 1))
        /\ Symbol(a.x, top(n + 1)) = "]"

\* C5: the document, a non-empty array in a large-enough region, and every
\* non-empty array nested in it are laid out as above, with no overflow.
C5_ArrayLayout ==
    (/\ pc = "rendered"
     /\ json.kind = "Array"
     /\ json.items # <<>>
     /\ LargeEnough(json, area))
    => /\ ~fault
       /\ \A c \in Containers("Array") : ArrayLaidOut(c[1].items, c[2])

\* [[42]] has been rendered at (1, 1): 42 stands four columns in, two rows
\* down, and the outer bracket closes on the fifth row.
C5_Witness ==
    /\ pc = "rendered"
    /\ json = VArray(<<VArray(<<VNumber(42)>>)>>)
    /\ area.x = 1
    /\ LargeEnough(json, area)
    /\ Symbol(area.x + 2, area.y + 1) = "["
    /\ Symbol(area.x + 4, area.y + 2) = "4"
    /\ Symbol(area.x + 2, area.y + 3) = "]"
    /\ Symbol(area.x, area.y + 4) = "]"

(***************************************************************************)
(* C6: rendering a non-empty object into a large-enough region with        *)
(* top-left (x, y): for each entry in order the key label followed by `: ` *)
(* is written from column x + 2 on the entry's first row, the value is     *)
(* laid out on that row from the column after the label and the separator  *)
(* (x + 2 + width of the label + 2) with the remaining width, the next     *)
(* entry's first row is the previous one's plus the height of the previous *)
(* value, and `}` is written at column x on the row after the last entry.  *)
(***************************************************************************)
KeyLabel(k) == Quoted(k)

ObjectLaidOut(obj, a) ==
    LET calls == ChildCalls(a)
        lines == KeyLines(a)
        n == Len(obj.items)
        row(i) == a.y + 1 + HeightsTo(obj.items, i - 1)
        label(i) == KeyLabel(obj.keys[i])
        column(i) == a.x + 2 + Len(label(i)) + 2
    IN  /\ SpanWritten(<<"{">>, a)
        /\ Symbol(a.x, a.y) = "{"
        /\ Len(calls) = n
        /\ Len(lines) = n
        /\ \A i \in 1..n :
              /\ lines[i].text = label(i) \o <<":", " ">>
              /\ lines[i].area.x = a.x + 2
              /\ lines[i].area.y = row(i)
              /\ calls[i].value = obj.items[i]
              /\ calls[i].area =
                    Rect(column(i), row(i), a.x + a.width - column(i),
                         height_of_value(obj.items[i]))
              /\ height_of_value(obj.items[i]) >= 1 =>
                    /\ \A j \in 1..Len(label(i)) :
                          Symbol(a.x + 1 + j, row(i)) = label(i)[j]
                    /\ Symbol(column(i) - 2, row(i)) = ":"
                    /\ Symbol(column(i) - 1, row(i)) = " "
                    /\ Symbol(column(i), row(i)) # " "
        /\ SpanWritten(<<"}">>, Rect(a.x, row(n + 1), a.width, 1))
        /\ Symbol(a.x, row(n + 1)) = "}"

RowsOf(r) == r.y .. (r.y + r.height - 1)

RowsPartitioned(value, a) ==
    LET calls == ChildCalls(a)
        lines == KeyLines(a)
        n == Len(calls)
        closing == IF value.kind = "Array" THEN <<"]">> ELSE <<"}">>
    IN  /\ n = Len(value.items)
        /\ \A i \in 1..n : RowsOf(calls[i].area) # {}
        /\ \A i, j \in 1..n : i # j => RowsOf(calls[i].area) \cap RowsOf(calls[j].area) = {}
        /\ \A i, j \in 1..Len(lines) : i # j => lines[i].area.y # lines[j].area.y
        /\ calls[1].area.y = a.y + 1
        /\ \A i \in 1..(n - 1) :
              calls[i + 1].area.y = calls[i].area.y + calls[i].area.height
        /\ SpanWritten(closing, Rect(a.x, a.y + height_of_value(value) - 1, a.width, 1))
        /\ calls[n].area.y + calls[n].area.height = a.y + height_of_value(value) - 1

\* C9: the rows of every non-empty container of a document rendered into a
\* large-enough region are partitioned among its children.
C9_RowsPartitioned ==
    (/\ pc = "rendered"
     /\ IsContainer(json)
     /\ json.items # <<>>
     /\ LargeEnough(json, area))
    => \A c \in Containers("Array") \cup Containers("Object") :
          RowsPartitioned(c[1], c[2])

(***************************************************************************)
(* C8: after any sequence of next-edit and prev-edit commands interleaved  *)
(* with render passes the cursor index stays in [0, N-1], N the number of  *)
(* edit positions (and is 0 when N = 0): next sets it to min(cursor + 1,   *)
(* N - 1), prev to max(cursor - 1, 0), neither wraps around, both are      *)
(* no-ops when N = 0, and a render pass never changes it.                  *)
(***************************************************************************)
N == edit_count(json)

NextKeys == {"j", "l", "Down", "Right"}
PrevKeys == {"k", "h", "Up", "Left"}

CursorInRange == cursor \in 0..Max(N - 1, 0)

CursorStep ==
    /\ (pc = "events" /\ key' \in NextKeys) =>
          cursor' = IF N = 0 THEN cursor ELSE Min(cursor + 1, N - 1)
    /\ (pc = "events" /\ key' \in PrevKeys) =>
          cursor' = IF N = 0 THEN cursor ELSE Max(cursor - 1, 0)
    /\ (pc = "events" /\ key' \notin NextKeys \cup PrevKeys) => cursor' = cursor
    /\ pc = "draw" => cursor' = cursor

\* C8: the cursor is always in range, and every step of the application
\* moves it as the command handled says.
C8_CursorClamped == []CursorInRange /\ [][CursorStep]_vars

\* A prev command has brought the cursor back to an interior position of a
\* document of three or more edit positions.
C8_Witness ==
    /\ pc = "draw"
    /\ key \in PrevKeys
    /\ N >= 3
    /\ cursor = 1

=============================================================================
